---------------------------- MODULE Spec2Model ----------------------------
(***************************************************************************)
(* A model of ci-log-processor: the failure-metrics extractor              *)
(* (process_e2e_data.py), run discovery, job enumeration and log fetching  *)
(* (github_api_calls.py) and the concurrent dispatcher                     *)
(* (parallel_processing.py).                                               *)
(*                                                                         *)
(* Each component has its own specification over its own variables; the    *)
(* variables of the other components are held at their initial values.     *)
(***************************************************************************)
EXTENDS Integers, Sequences, FiniteSets, TLC

VARIABLES
    \* ---- failure-metrics extractor (process_e2e_data.py)
    x_pc,        \* "ready" | "done"
    x_path,      \* the path handed to process_log_file, a sequence of characters
    x_isfile,    \* os.path.isfile(job)
    x_content,   \* the file's text, a sequence of lines
    x_result,    \* what process_log_file returned
    \* ---- run discovery (github_api_calls.py, get_run_ids)
    d_pc,          \* "idle" | "start" | "paging" | "done"
    d_max_pages,   \* argument max_pages
    d_days,        \* argument days
    d_date_range,  \* argument date_range
    d_page_depth,  \* local page_depth
    d_created,     \* local date_limit_str, the creation-date filter sent
    d_page_number, \* local page_number
    d_run_subset,  \* local run_subset
    d_fetched,     \* history: the number of run records of each page fetched
    d_failed,      \* an exception reached the except clause
    d_returned,    \* the list get_run_ids returned
    \* ---- job enumeration and hand-over (github_api_calls.py, get_all_job_ids)
    h_pc,            \* "idle" | "listing" | "returned" | "raised" | "dispatched"
    h_runs,          \* argument runs: the run ids, in order
    h_all_jobs,      \* local all_jobs: (job, run id) pairs
    h_processed_runs,\* local processed_runs
    h_calls,         \* history: per listing call, the run, the response, the jobs kept
    h_limit_warned,  \* the "Too many jobs were fetched" warning was logged
    h_log_processed, \* the processed runs logged with the warning
    h_log_unprocessed_count,  \* the number of unprocessed runs logged
    h_log_unprocessed,        \* the unprocessed runs logged
    h_dispatched,    \* the entries get_job_logs_in_parallel submitted
    h_cap_warned,    \* the "Only fetching first ..." warning was logged
    h_success_count, \* success_count at the end of get_job_logs_in_parallel
    h_download,      \* what the download of each flaky job did
    \* ---- concurrent dispatcher (parallel_processing.py, get_job_logs_in_parallel)
    p_pc,            \* "idle" | "start" | "collecting" | "done" | "raised"
    p_all_jobs,      \* argument all_jobs
    p_futures,       \* per submitted entry: "pending" | "running" | "path" | "none" | "raise"
    p_collected,     \* the futures as_completed has yielded
    p_success_count, \* local success_count
    p_errors_logged  \* the "Job processing failed" errors logged

x_vars == <<x_pc, x_path, x_isfile, x_content, x_result>>

d_vars == <<d_pc, d_max_pages, d_days, d_date_range, d_page_depth, d_created,
            d_page_number, d_run_subset, d_fetched, d_failed, d_returned>>

h_vars == <<h_pc, h_runs, h_all_jobs, h_processed_runs, h_calls, h_limit_warned,
            h_log_processed, h_log_unprocessed_count, h_log_unprocessed,
            h_dispatched, h_cap_warned, h_success_count, h_download>>

p_vars == <<p_pc, p_all_jobs, p_futures, p_collected, p_success_count, p_errors_logged>>

vars == <<x_vars, d_vars, h_vars, p_vars>>

(***************************************************************************)
(* Bounds of the model.                                                    *)
(***************************************************************************)
MaxLines == 5
MaxNameLen == 3
MaxProviderPages == 6   \* the provider has at most this many pages with runs
MaxRuns == 3            \* the runs handed to get_all_job_ids
MaxJobs == 3            \* the entries handed to the concurrent dispatcher

Min(a, b) == IF a < b THEN a ELSE b

RECURSIVE SeqsUpTo(_, _)
SeqsUpTo(S, n) ==
    IF n = 0 THEN {<<>>}
    ELSE LET shorter == SeqsUpTo(S, n - 1)
         IN  shorter \cup {Append(s, e) : s \in shorter, e \in S}

(***************************************************************************)
(* Values shared by the components, and each component at rest.            *)
(***************************************************************************)
\* process_log_file returned None.
NoResult == [none |-> TRUE]

\* datetime.today() as a day number; a missing field; the defaults of
\* --days and of page_depth, and the page depth of --once.
Today == 20
Missing == <<>>
DefaultDays == 7
DefaultPageDepth == 9999
OncePageDepth == 5

\* date_range = ""
NoRange == [kind |-> "none"]

x_Idle ==
    /\ x_pc = "idle"
    /\ x_path = <<>>
    /\ x_isfile = FALSE
    /\ x_content = <<>>
    /\ x_result = NoResult

d_Idle ==
    /\ d_pc = "idle"
    /\ d_max_pages = FALSE
    /\ d_days = DefaultDays
    /\ d_date_range = NoRange
    /\ d_page_depth = DefaultPageDepth
    /\ d_created = NoRange
    /\ d_page_number = 1
    /\ d_run_subset = <<>>
    /\ d_fetched = <<>>
    /\ d_failed = FALSE
    /\ d_returned = <<>>

h_Idle ==
    /\ h_pc = "idle"
    /\ h_runs = <<>>
    /\ h_all_jobs = <<>>
    /\ h_processed_runs = <<>>
    /\ h_calls = <<>>
    /\ h_limit_warned = FALSE
    /\ h_log_processed = <<>>
    /\ h_log_unprocessed_count = 0
    /\ h_log_unprocessed = <<>>
    /\ h_dispatched = <<>>
    /\ h_cap_warned = FALSE
    /\ h_success_count = 0
    /\ h_download = <<>>

p_Idle ==
    /\ p_pc = "idle"
    /\ p_all_jobs = <<>>
    /\ p_futures = <<>>
    /\ p_collected = {}
    /\ p_success_count = 0
    /\ p_errors_logged = 0

(***************************************************************************)
(* Failure-metrics extractor.                                              *)
(*                                                                         *)
(* A log text is a sequence of lines.  Each line is one of the lines the   *)
(* retry action and the test runner print:                                 *)
(*   "marker"          Run nick-fields/retry@v3                            *)
(*   "completed"       Command completed after 2 attempts                  *)
(*   "attempt"         Attempt 2                                           *)
(*   "attempt_failed"  Attempt 1 failed. Reason: Child_process exited ...  *)
(*   "final_failed"    Final attempt failed. Child_process exited ...      *)
(*   "tests_failed"    Tests:       1 failed, 12 passed, 13 total          *)
(* re.findall of each pattern finds one match in the line of its kind and  *)
(* none in the others ("Attempt 1 failed. ..." has text after the number,  *)
(* so the end-of-line anchored r"Attempt \d+$" does not match it, and      *)
(* "Final attempt failed" has no number for r"Attempt \d+ failed").        *)
(***************************************************************************)
LineKinds ==
    {"marker", "completed", "attempt", "attempt_failed", "final_failed", "tests_failed"}

\* len(re.findall(pattern, content)): the lines of the text the pattern matches.
findall_count(kind, content) ==
    Cardinality({i \in DOMAIN content : content[i] = kind})

\* "Run nick-fields/retry" in content
has_retry_marker(content) == \E i \in DOMAIN content : content[i] = "marker"

\* A file name is a sequence of characters.
Digits == {"1"}
NameChars == {"1", "-", "a"}

\* os.path.basename: what follows the last "/".
RECURSIVE basename(_)
basename(path) ==
    IF path = <<>> THEN <<>>
    ELSE IF path[Len(path)] = "/" THEN <<>>
    ELSE Append(basename(SubSeq(path, 1, Len(path) - 1)), path[Len(path)])

\* The length of the longest prefix of digits of name.
RECURSIVE digit_prefix_len(_)
digit_prefix_len(name) ==
    IF name # <<>> /\ name[1] \in Digits
    THEN 1 + digit_prefix_len(Tail(name))
    ELSE 0

\* re.sub(r"^\d+-", "", name)
strip_numeric_prefix(name) ==
    LET n == digit_prefix_len(name)
    IN  IF n >= 1 /\ Len(name) > n /\ name[n + 1] = "-"
        THEN SubSeq(name, n + 2, Len(name))
        ELSE name

\* round(n / d, 0) as Python rounds: to the nearest, halves to the even one.
round_half_even(n, d) ==
    LET q == n \div d
        r == n % d
    IN  IF 2 * r < d THEN q
        ELSE IF 2 * r > d THEN q + 1
        ELSE IF q % 2 = 0 THEN q ELSE q + 1

\* compute_failure_rate, in hundredths of a percent (round(..., 2) keeps two
\* decimals): 10000 is 100.00.
compute_failure_rate(failure_count, total_runs) ==
    IF total_runs > 0
    THEN round_half_even(failure_count * 10000, total_runs)
    ELSE 0

retry_cap == 3

\* The sum of the component counts, the cap forgotten.
uncapped_failure_count(attempt_failure_count, final_attempt_failure_count, test_fail_count) ==
    attempt_failure_count + final_attempt_failure_count + test_fail_count

\* min(attempt + final + test failures, 3)
capped_failure_count(attempt_failure_count, final_attempt_failure_count, test_fail_count) ==
    Min(attempt_failure_count + final_attempt_failure_count + test_fail_count, retry_cap)

\* The job_name of the record returned when the retry marker is absent.
job_name_without_marker(job) == basename(job)

\* The job_name of the record returned when the retry marker is present.
job_name_with_marker(job) == strip_numeric_prefix(basename(job))

process_log_file(job, isfile, content) ==
    IF ~isfile THEN NoResult
    ELSE IF ~has_retry_marker(content) THEN
        [job_name |-> job_name_without_marker(job),
         total_runs |-> 0,
         logged_attempt_total |-> 0,
         logged_attempt_count |-> 0,
         failures |-> 0,
         test_failure_count |-> 0,
         attempt_failure_count |-> 0,
         final_attempt_failure_count |-> 0,
         failure_rate |-> 0]
    ELSE
        LET logged_attempt_total == findall_count("completed", content)
            logged_attempt_count == findall_count("attempt", content)
            total_runs == logged_attempt_total + logged_attempt_count
            attempt_failure_count == findall_count("attempt_failed", content)
            final_attempt_failure_count == findall_count("final_failed", content)
            test_fail_count == findall_count("tests_failed", content)
            failure_count == capped_failure_count(attempt_failure_count,
                                 final_attempt_failure_count, test_fail_count)
            failure_rate == compute_failure_rate(failure_count, total_runs)
        IN  [job_name |-> job_name_with_marker(job),
             total_runs |-> total_runs,
             logged_attempt_total |-> logged_attempt_total,
             logged_attempt_count |-> logged_attempt_count,
             failures |-> failure_count,
             test_failure_count |-> test_fail_count,
             attempt_failure_count |-> attempt_failure_count,
             final_attempt_failure_count |-> final_attempt_failure_count,
             failure_rate |-> failure_rate]

\* The paths tried: a file name, alone or under a directory.
LogDirs == {<<>>, <<"d", "/">>}
LogPaths == {d \o n : d \in LogDirs, n \in SeqsUpTo(NameChars, MaxNameLen)}
LogTexts == SeqsUpTo(LineKinds, MaxLines)
\* The inputs tried: every path with a text of at most one line (with and
\* without the retry marker), and every text under one path.
OneLogPath == <<"d", "/", "1", "-", "a">>
ShortLogTexts == {<<>>, <<"marker">>, <<"attempt_failed">>}
ExtractInputs ==
    {<<p, t>> : p \in LogPaths, t \in ShortLogTexts}
        \cup {<<OneLogPath, t>> : t \in LogTexts}

(***************************************************************************)
(* Run discovery: get_run_ids of github_api_calls.py.                      *)
(*                                                                         *)
(* A date is a day number.  A run record of the provider has an id and a   *)
(* created_at, either of which may be missing (run.get(...) is None):      *)
(* a missing field is <<>>, a present one <<value>>.                       *)
(***************************************************************************)

\* The explicit date ranges tried: none (""), and one that ends before the
\* default lookback window starts.
DateRanges == {NoRange, [kind |-> "range", lo |-> Today - 12, hi |-> Today - 9]}
DaysChoices == {1, DefaultDays}

\* ">=" + (today - days).strftime("%Y-%m-%d")
since_filter(days) == [kind |-> "since", lo |-> Today - days]

\* Lines 27-31: the creation-date filter sent to the provider.
date_limit_str(days, date_range) ==
    IF days = DefaultDays /\ date_range # NoRange
    THEN date_range
    ELSE since_filter(days)

\* Lines 22-26: the page-depth cap.
page_depth_for(max_pages) == IF max_pages THEN OncePageDepth ELSE DefaultPageDepth

\* Whether the provider's "created" filter selects a creation date.
in_filter(f, date) ==
    IF f.kind = "since" THEN date >= f.lo ELSE f.lo <= date /\ date <= f.hi

\* The run records the provider holds: two recent runs, an older one, and one
\* whose created_at is missing.
ProviderRuns ==
    <<[id |-> <<1>>, status |-> "completed", conclusion |-> "success", created_at |-> <<Today>>],
      [id |-> <<2>>, status |-> "completed", conclusion |-> "failure", created_at |-> <<Today - 10>>],
      [id |-> <<3>>, status |-> "completed", conclusion |-> "success", created_at |-> Missing]>>

\* The provider applies the filter to the records that have a creation date.
provider_selects(f, run) ==
    run.created_at = Missing \/ in_filter(f, run.created_at[1])

\* The records of a list at the positions in S, in the list's order.
RECURSIVE select_from(_, _)
select_from(list, S) ==
    IF list = <<>> THEN <<>>
    ELSE LET front == select_from(SubSeq(list, 1, Len(list) - 1), S)
         IN  IF Len(list) \in S THEN Append(front, list[Len(list)]) ELSE front

\* The non-empty pages the provider may return for a filter: any of the runs
\* the filter selects, in the provider's order (page_size is not smaller than
\* the number of runs the provider holds).
provider_pages(f) ==
    {select_from(ProviderRuns, S) :
        S \in SUBSET {i \in DOMAIN ProviderRuns : provider_selects(f, ProviderRuns[i])}}
      \ {<<>>}

\* Lines 50-57: the normalised record of one run.
run_record(run) ==
    [id |-> run.id, status |-> run.status, conclusion |-> run.conclusion,
     created_at |-> run.created_at]

RECURSIVE run_records(_)
run_records(page) ==
    IF page = <<>> THEN <<>>
    ELSE <<run_record(Head(page))>> \o run_records(Tail(page))

\* ghapi's paged(): the generator calls the operation for pages 1..max_pages.
paged_unbounded(fetched, page_depth) == TRUE

paged_has_next(fetched, page_depth) == fetched < page_depth

InitDiscover ==
    /\ d_pc = "start"
    /\ d_max_pages \in BOOLEAN
    /\ d_days \in DaysChoices
    /\ d_date_range \in DateRanges
    /\ d_page_depth = DefaultPageDepth
    /\ d_created = NoRange
    /\ d_page_number = 1
    /\ d_run_subset = <<>>
    /\ d_fetched = <<>>
    /\ d_failed = FALSE
    /\ d_returned = <<>>
    /\ x_Idle
    /\ h_Idle
    /\ p_Idle

\* Lines 21-40: the cap, the filter, the paged() generator, the empty list.
GetRunIdsSetup ==
    /\ d_pc = "start"
    /\ d_page_depth' = page_depth_for(d_max_pages)
    /\ d_created' = date_limit_str(d_days, d_date_range)
    /\ d_run_subset' = <<>>
    /\ d_page_number' = 1
    /\ d_pc' = "paging"
    /\ UNCHANGED <<d_max_pages, d_days, d_date_range, d_fetched, d_failed, d_returned>>
    /\ UNCHANGED <<x_vars, h_vars, p_vars>>

\* Lines 41-57: the generator fetches the next page, which has runs.
FetchPage ==
    /\ d_pc = "paging"
    /\ paged_has_next(Len(d_fetched), d_page_depth)
    /\ Len(d_fetched) < MaxProviderPages
    /\ \E page \in provider_pages(d_created) :
        /\ d_fetched' = Append(d_fetched, Len(page))
        /\ d_run_subset' = d_run_subset \o run_records(page)
    /\ d_page_number' = d_page_number + 1
    /\ UNCHANGED <<d_pc, d_max_pages, d_days, d_date_range, d_page_depth, d_created,
                   d_failed, d_returned>>
    /\ UNCHANGED <<x_vars, h_vars, p_vars>>

\* Lines 41-44: the next page has no run records; run_subset is returned.
FetchEmptyPage ==
    /\ d_pc = "paging"
    /\ paged_has_next(Len(d_fetched), d_page_depth)
    /\ d_fetched' = Append(d_fetched, 0)
    /\ d_returned' = d_run_subset
    /\ d_pc' = "done"
    /\ UNCHANGED <<d_max_pages, d_days, d_date_range, d_page_depth, d_created,
                   d_page_number, d_run_subset, d_failed>>
    /\ UNCHANGED <<x_vars, h_vars, p_vars>>

\* A handler that would hand back the runs of the pages read before the error.
returned_on_error_partial(run_subset) == run_subset

\* Lines 64-66: the except clause logs the error and returns [], whatever
\* run_subset holds by then.
returned_on_error(run_subset) == <<>>

\* Lines 41, 64-66: fetching the next page raises; [] is returned.
FetchRaises ==
    /\ d_pc = "paging"
    /\ paged_has_next(Len(d_fetched), d_page_depth)
    /\ d_failed' = TRUE
    /\ d_returned' = returned_on_error(d_run_subset)
    /\ d_pc' = "done"
    /\ UNCHANGED <<d_max_pages, d_days, d_date_range, d_page_depth, d_created,
                   d_page_number, d_run_subset, d_fetched>>
    /\ UNCHANGED <<x_vars, h_vars, p_vars>>

\* Lines 41, 59-73: the generator is exhausted at the cap; run_subset is returned.
PagesExhausted ==
    /\ d_pc = "paging"
    /\ ~paged_has_next(Len(d_fetched), d_page_depth)
    /\ d_returned' = d_run_subset
    /\ d_pc' = "done"
    /\ UNCHANGED <<d_max_pages, d_days, d_date_range, d_page_depth, d_created,
                   d_page_number, d_run_subset, d_fetched, d_failed>>
    /\ UNCHANGED <<x_vars, h_vars, p_vars>>

NextDiscover ==
    \/ GetRunIdsSetup
    \/ FetchPage
    \/ FetchEmptyPage
    \/ FetchRaises
    \/ PagesExhausted

\* get_run_ids is sequential code: while a step is possible, one is taken
\* (every request to the provider answers with a page or an error).
SpecDiscover == InitDiscover /\ [][NextDiscover]_vars /\ WF_vars(NextDiscover)

\* C1: run discovery terminates; it never fetches more pages than the cap; no
\* page is fetched after a page without run records; and when it returns without
\* an error, the last page fetched was empty or the cap was reached.
C1_PaginationTerminates ==
    /\ <>(d_pc = "done")
    /\ [](Len(d_fetched) <= d_page_depth)
    /\ [](\A i \in 1..(Len(d_fetched) - 1) : d_fetched[i] > 0)
    /\ []((d_pc = "done" /\ ~d_failed) =>
            \/ (d_fetched # <<>> /\ d_fetched[Len(d_fetched)] = 0)
            \/ Len(d_fetched) = d_page_depth)

\* Discovery ran into the page-depth cap with every page holding runs.
C1_Witness ==
    /\ d_pc = "done"
    /\ ~d_failed
    /\ Len(d_fetched) = d_page_depth
    /\ \A i \in DOMAIN d_fetched : d_fetched[i] > 0

\* C2: every run returned by discovery has a created_at, and it lies within
\* [today - days, today].
C2_RunsInWindow ==
    d_pc = "done" =>
        \A i \in DOMAIN d_returned :
            /\ d_returned[i].created_at # Missing
            /\ d_returned[i].created_at[1] >= Today - d_days
            /\ d_returned[i].created_at[1] <= Today

\* C11: an error while fetching any page, the first or one after pages that
\* were read successfully, ends discovery at once with the empty list: the
\* result never holds the runs of the pages fetched before the error.
C11_ErrorReturnsEmpty ==
    /\ (d_failed => (d_pc = "done" /\ d_returned = <<>>))
    /\ (ENABLED FetchRaises <=>
            (d_pc = "paging" /\ paged_has_next(Len(d_fetched), d_page_depth)))

\* Discovery failed on a page after pages with runs had been read.
C11_Witness ==
    /\ d_pc = "done"
    /\ d_failed
    /\ Len(d_fetched) >= 2
    /\ d_run_subset # <<>>
    /\ d_returned = <<>>

\* C12: whenever a date range is supplied it is the creation-date filter sent
\* to the provider, whatever the lookback in days; without a date range the
\* filter is the window starting at today - days.
C12_DateRangeTakesPrecedence ==
    d_pc \in {"paging", "done"} =>
        d_created = IF d_date_range # NoRange
                    THEN d_date_range
                    ELSE since_filter(d_days)

(***************************************************************************)
(* Job enumeration: get_jobs_for_workflow_run and get_all_job_ids of       *)
(* github_api_calls.py, and the hand-over of the list to                   *)
(* get_job_logs_in_parallel of parallel_processing.py.                     *)
(*                                                                         *)
(* A job entry of the provider has an id (<<>> when missing, else <<n>>)   *)
(* and a name: a string, Absent when the entry has no "name" key, None     *)
(* when the key is there with a null value.                                *)
(***************************************************************************)
fetch_limit == 90
rate_limit_index == 900
Absent == "<absent>"
None == "<None>"
UnnamedJob == "unnamed-job"

Range(f) == {f[i] : i \in DOMAIN f}

\* The job entries of a well-formed response: n jobs of the run.
provider_jobs(run_id, n) ==
    [k \in 1..n |-> [id |-> <<run_id * 10000 + k>>, name |-> "e2e"]]

\* A response with entries that lack an id or a name.
provider_jobs_malformed(run_id) ==
    <<[id |-> <<run_id * 10000 + 1>>, name |-> "e2e"],
      [id |-> Missing, name |-> "e2e"],
      [id |-> <<run_id * 10000 + 3>>, name |-> Absent],
      [id |-> <<run_id * 10000 + 4>>, name |-> None]>>

\* What api.actions.list_jobs_for_workflow_run may do for a run: raise, answer
\* without a "jobs" key, or answer with a list of jobs.
JobCounts == {0, 1, 45, 91}
provider_job_responses(run_id) ==
    {[kind |-> "raise"], [kind |-> "nokey"]}
      \cup {[kind |-> "jobs", jobs |-> provider_jobs(run_id, n)] : n \in JobCounts}
      \cup {[kind |-> "jobs", jobs |-> provider_jobs_malformed(run_id)]}

\* job.get("name", "unnamed-job")
job_name_or_default(job) == IF job.name = Absent THEN UnnamedJob ELSE job.name

\* if job.get("id")
job_has_id(job) == job.id # Missing

\* Lines 80-96: the jobs of one run.
get_jobs_for_workflow_run(response) ==
    IF response.kind = "raise" THEN <<>>
    ELSE IF response.kind = "nokey" THEN <<>>
    ELSE LET kept == SelectSeq(response.jobs, job_has_id)
         IN  [k \in DOMAIN kept |->
                [id |-> kept[k].id, name |-> job_name_or_default(kept[k])]]

\* Line 156: the check the loop makes after each run, with a limit of 900.
over_fetch_limit_900(count) == count > rate_limit_index

\* Line 156: the check the loop makes after each run, the comparison inverted.
over_fetch_limit_inverted(count) == count < fetch_limit

\* Line 156: the check the loop makes after each run.
over_fetch_limit(count) == count > fetch_limit

\* Lines 159-163: the unprocessed runs, as logged.
unprocessed_count(runs, processed_runs) == Len(runs) - Len(processed_runs)

unprocessed_runs(runs, processed_runs) ==
    LET not_processed(run_id) == run_id \notin Range(processed_runs)
    IN  SelectSeq(runs, not_processed)

\* Lines 9-16 of parallel_processing.py: the entries that are submitted, cut
\* at 1000 as the warning's text has it.
jobs_to_dispatch_1000(all_jobs) ==
    IF Len(all_jobs) > rate_limit_index
    THEN SubSeq(all_jobs, 1, Min(Len(all_jobs), rate_limit_index + 100))
    ELSE all_jobs

\* Lines 9-16 of parallel_processing.py: the entries that are submitted.
jobs_to_dispatch(all_jobs) ==
    IF Len(all_jobs) > rate_limit_index
    THEN SubSeq(all_jobs, 1, rate_limit_index)
    ELSE all_jobs

cap_warning(all_jobs) == Len(all_jobs) > rate_limit_index

\* What get_logs_for_job does for one entry: it returns the path ("path"),
\* returns None after a download error ("none"), or raises ("raise": the
\* run directory cannot be created, line 116).
DownloadOutcomes == {"path", "none", "raise"}

\* The jobs whose download may fail; the download of every other job works.
FlakyJobIds == {10001, 20001}
Downloads == [FlakyJobIds -> DownloadOutcomes]

download_outcome(download, entry) ==
    IF entry[1].id[1] \in DOMAIN download THEN download[entry[1].id[1]] ELSE "path"

\* Lines 18-43 of parallel_processing.py as a whole: every submitted entry is
\* run, and success_count is the number of futures whose result is a path.
success_count_of(dispatched, download) ==
    Cardinality({i \in DOMAIN dispatched : download_outcome(download, dispatched[i]) = "path"})

RunIds == {1, 2}

InitHarvest ==
    /\ h_pc = "listing"
    /\ h_runs \in SeqsUpTo(RunIds, MaxRuns)
    /\ h_all_jobs = <<>>
    /\ h_processed_runs = <<>>
    /\ h_calls = <<>>
    /\ h_limit_warned = FALSE
    /\ h_log_processed = <<>>
    /\ h_log_unprocessed_count = 0
    /\ h_log_unprocessed = <<>>
    /\ h_dispatched = <<>>
    /\ h_cap_warned = FALSE
    /\ h_success_count = 0
    /\ h_download = <<>>
    /\ x_Idle
    /\ d_Idle
    /\ p_Idle

\* Lines 150-164: one round of the loop of get_all_job_ids, for the next run:
\* its jobs are listed and appended, the run is recorded, and the limit checked.
ListJobsOfRun ==
    /\ h_pc = "listing"
    /\ Len(h_processed_runs) < Len(h_runs)
    /\ LET run_id == h_runs[Len(h_processed_runs) + 1]
       IN  \E response \in provider_job_responses(run_id) :
            LET jobs == get_jobs_for_workflow_run(response)
                all_jobs == h_all_jobs \o [k \in DOMAIN jobs |-> <<jobs[k], run_id>>]
                processed_runs == Append(h_processed_runs, run_id)
            IN  /\ h_all_jobs' = all_jobs
                /\ h_processed_runs' = processed_runs
                /\ h_calls' = Append(h_calls,
                        [run |-> run_id, kind |-> response.kind, kept |-> Len(jobs)])
                /\ IF over_fetch_limit(Len(all_jobs))
                   THEN /\ h_limit_warned' = TRUE
                        /\ h_log_processed' = processed_runs
                        /\ h_log_unprocessed_count' =
                                unprocessed_count(h_runs, processed_runs)
                        /\ h_log_unprocessed' = unprocessed_runs(h_runs, processed_runs)
                        /\ h_pc' = "returned"
                   ELSE /\ UNCHANGED <<h_limit_warned, h_log_processed,
                                       h_log_unprocessed_count, h_log_unprocessed>>
                        /\ h_pc' = "listing"
    /\ UNCHANGED <<h_runs, h_dispatched, h_cap_warned, h_success_count, h_download>>
    /\ UNCHANGED <<x_vars, d_vars, p_vars>>

\* Lines 77-78: creating the run's directory raises; the exception leaves
\* get_jobs_for_workflow_run and get_all_job_ids.
RunDirRaises ==
    /\ h_pc = "listing"
    /\ Len(h_processed_runs) < Len(h_runs)
    /\ h_pc' = "raised"
    /\ UNCHANGED <<h_runs, h_all_jobs, h_processed_runs, h_calls, h_limit_warned,
                   h_log_processed, h_log_unprocessed_count, h_log_unprocessed,
                   h_dispatched, h_cap_warned, h_success_count, h_download>>
    /\ UNCHANGED <<x_vars, d_vars, p_vars>>

\* Line 165: the loop is over; all_jobs is returned.
ReturnAllJobs ==
    /\ h_pc = "listing"
    /\ Len(h_processed_runs) = Len(h_runs)
    /\ h_pc' = "returned"
    /\ UNCHANGED <<h_runs, h_all_jobs, h_processed_runs, h_calls, h_limit_warned,
                   h_log_processed, h_log_unprocessed_count, h_log_unprocessed,
                   h_dispatched, h_cap_warned, h_success_count, h_download>>
    /\ UNCHANGED <<x_vars, d_vars, p_vars>>

\* The list get_all_job_ids returned is handed to get_job_logs_in_parallel,
\* which runs to its end.
DispatchAllJobs ==
    /\ h_pc = "returned"
    /\ \E download \in Downloads :
        /\ h_dispatched' = jobs_to_dispatch(h_all_jobs)
        /\ h_cap_warned' = cap_warning(h_all_jobs)
        /\ h_success_count' = success_count_of(jobs_to_dispatch(h_all_jobs), download)
        /\ h_download' = download
    /\ h_pc' = "dispatched"
    /\ UNCHANGED <<h_runs, h_all_jobs, h_processed_runs, h_calls, h_limit_warned,
                   h_log_processed, h_log_unprocessed_count, h_log_unprocessed>>
    /\ UNCHANGED <<x_vars, d_vars, p_vars>>

\* The lists handed to get_job_logs_in_parallel directly: the jobs of run 1
\* followed by jobs of run 2, of lengths on both sides of the threshold.
DispatchInputs ==
    {[k \in 1..(n1 + n2) |->
        IF k <= n1 THEN <<provider_jobs(1, n1)[k], 1>>
        ELSE <<provider_jobs(2, n2)[k - n1], 2>>] :
      n1 \in {0, 1, 450, 899, 900, 901, 1200}, n2 \in {0, 1, 450}}

InitDispatchCap ==
    /\ h_pc = "returned"
    /\ h_runs = <<>>
    /\ h_all_jobs \in DispatchInputs
    /\ h_processed_runs = <<>>
    /\ h_calls = <<>>
    /\ h_limit_warned = FALSE
    /\ h_log_processed = <<>>
    /\ h_log_unprocessed_count = 0
    /\ h_log_unprocessed = <<>>
    /\ h_dispatched = <<>>
    /\ h_cap_warned = FALSE
    /\ h_success_count = 0
    /\ h_download = <<>>
    /\ x_Idle
    /\ d_Idle
    /\ p_Idle

NextDispatchCap == DispatchAllJobs

SpecDispatchCap == InitDispatchCap /\ [][NextDispatchCap]_vars

NextHarvest ==
    \/ ListJobsOfRun
    \/ RunDirRaises
    \/ ReturnAllJobs
    \/ DispatchAllJobs

SpecHarvest == InitHarvest /\ [][NextHarvest]_vars

h_get_all_job_ids_returned == h_pc \in {"returned", "dispatched"}

FailedListing == {"raise", "nokey"}

\* The jobs kept by the listing calls 1..n together.
RECURSIVE KeptUpTo(_, _)
KeptUpTo(calls, n) ==
    IF n = 0 THEN 0 ELSE calls[n].kept + KeptUpTo(calls, n - 1)

\* C3: once the total exceeds the cap no further run is listed; the processed
\* runs reported are the runs that were listed; the unprocessed runs reported
\* are the runs of the input that are not among the processed ones, and the
\* number reported with them is the number of runs in that list.
C3_SkippedRunsReported ==
    h_limit_warned =>
        /\ KeptUpTo(h_calls, Len(h_calls)) > fetch_limit
        /\ KeptUpTo(h_calls, Len(h_calls) - 1) <= fetch_limit
        /\ h_log_processed = [i \in DOMAIN h_calls |-> h_calls[i].run]
        /\ Range(h_log_unprocessed) = Range(h_runs) \ Range(h_log_processed)
        /\ h_log_unprocessed_count = Len(h_log_unprocessed)

\* C4 as stated: the list get_all_job_ids returns never has more than
\* fetch_limit = 90 entries.
C4_AtMostLimit ==
    h_get_all_job_ids_returned => Len(h_all_jobs) <= 90

\* C4 as amended: the runs before the last one listed contributed at most
\* fetch_limit entries together, and once the list is over the limit no
\* further run is listed.
C4_LimitStopsListing ==
    /\ Len(h_all_jobs) = KeptUpTo(h_calls, Len(h_calls))
    /\ h_calls # <<>> => KeptUpTo(h_calls, Len(h_calls) - 1) <= 90
    /\ Len(h_all_jobs) > 90 => h_pc # "listing"

\* get_all_job_ids returned a list of more than fetch_limit entries.
C4_Witness ==
    /\ h_get_all_job_ids_returned
    /\ h_limit_warned
    /\ Len(h_all_jobs) > 90

\* C5 as stated: after a run whose listing raised or had no job collection,
\* every later run of the batch is listed, and every job listed is dispatched.
C5_EveryLaterRunListed ==
    h_pc = "dispatched" =>
        /\ (\E i \in DOMAIN h_calls : h_calls[i].kind \in FailedListing)
                => Len(h_calls) = Len(h_runs)
        /\ h_dispatched = h_all_jobs

\* The entries of a list whose download returns a path.
DownloadedEntries(entries, download) ==
    {i \in DOMAIN entries : download_outcome(download, entries[i]) = "path"}

\* C5 as amended: a failed listing adds no entry, records its run as
\* processed, logs no limit warning and leaves the loop running, so that the
\* next run, if any, is the next one listed; when get_all_job_ids returns,
\* every run has been listed unless the total went over the limit of 90; every
\* job that was listed is in the list handed over, the first 900 of them are
\* dispatched, and the success total is the number of those whose download
\* returned a path.
C5_FailedListingIsEmpty ==
    /\ [][(h_calls' # h_calls /\ h_calls'[Len(h_calls')].kind \in FailedListing) =>
            /\ h_all_jobs' = h_all_jobs
            /\ h_processed_runs' = Append(h_processed_runs, h_runs[Len(h_calls')])
            /\ h_pc' = "listing"
            /\ ~h_limit_warned']_vars
    /\ [](Len(h_all_jobs) = KeptUpTo(h_calls, Len(h_calls)))
    /\ [](h_get_all_job_ids_returned =>
            \/ Len(h_calls) = Len(h_runs)
            \/ h_limit_warned /\ Len(h_all_jobs) > 90)
    /\ [](h_pc = "dispatched" =>
            /\ h_dispatched = SubSeq(h_all_jobs, 1, Min(Len(h_all_jobs), 900))
            /\ h_success_count =
                    Cardinality(DownloadedEntries(h_dispatched, h_download)))

\* A listing failed, a later run was listed with jobs, and they were fetched.
C5_Witness ==
    /\ h_pc = "dispatched"
    /\ Len(h_calls) >= 2
    /\ h_calls[1].kind \in FailedListing
    /\ h_calls[2].kind = "jobs"
    /\ h_calls[2].kept > 0
    /\ h_success_count > 0

\* C7: a list of more than 900 entries is cut to its first 900, in order, with
\* a warning, and only those are downloaded; a list of at most 900 entries is
\* dispatched whole, without a warning; 1200 entries in, 900 dispatched.
C7_SafetyCap ==
    h_pc = "dispatched" =>
        /\ IF Len(h_all_jobs) > 900
           THEN /\ h_dispatched = [i \in 1..900 |-> h_all_jobs[i]]
                /\ h_cap_warned
           ELSE /\ h_dispatched = h_all_jobs
                /\ ~h_cap_warned
        /\ Len(h_all_jobs) = 1200 => Len(h_dispatched) = 900
        /\ h_success_count = Cardinality(DownloadedEntries(h_dispatched, h_download))
        /\ h_success_count <= 900

\* 1200 entries were handed over and 900 dispatched.
C7_Witness ==
    /\ h_pc = "dispatched"
    /\ Len(h_all_jobs) = 1200
    /\ Len(h_dispatched) = 900
    /\ h_cap_warned

\* C14: every job record returned by get_jobs_for_workflow_run has a present
\* id and a name that is not null: entries without an id are left out, and an
\* absent or null name is replaced by 'unnamed-job'.
C14_JobsHaveIdAndName ==
    \A i \in DOMAIN h_all_jobs :
        /\ h_all_jobs[i][1].id # Missing
        /\ h_all_jobs[i][1].name # Absent
        /\ h_all_jobs[i][1].name # None

(***************************************************************************)
(* The concurrent dispatcher: get_job_logs_in_parallel, step by step.      *)
(*                                                                         *)
(* Each submitted entry has a future.  The pool's threads take the entries *)
(* in submission order; a thread runs get_logs_for_job for its entry:      *)
(* it creates the run directory (which may raise), opens the log file and  *)
(* downloads into it (an error makes it return None).  The main thread     *)
(* takes the finished futures one by one, in any order they finish in.     *)
(***************************************************************************)
\* ThreadPoolExecutor(): min(32, os.cpu_count() + 4) threads, 5 at the least.
pool_threads == 5

Finished == {"path", "none", "raise"}

\* Lines 34-39 of parallel_processing.py, with no except clause around
\* future.result().
collect_result_uncaught(result, success_count) ==
    [success_count |-> IF result = "path" THEN success_count + 1 ELSE success_count,
     errors |-> 0,
     raised |-> result = "raise"]

\* Lines 34-39 of parallel_processing.py: what the main thread does with one
\* finished future.
collect_result(result, success_count) ==
    [success_count |-> IF result = "path" THEN success_count + 1 ELSE success_count,
     errors |-> IF result = "raise" THEN 1 ELSE 0,
     raised |-> FALSE]

\* Line 118 of github_api_calls.py: the file an entry's log is written to.
output_path(entry) == [run |-> entry[2], job_id |-> entry[1].id, job_name |-> entry[1].name]

\* The entries the dispatcher is given: jobs of two runs.
DispatchEntries ==
    {<<[id |-> <<10001>>, name |-> "e2e"], 1>>,
     <<[id |-> <<10002>>, name |-> "e2e"], 1>>,
     <<[id |-> <<20001>>, name |-> UnnamedJob], 2>>}

InitDispatch ==
    /\ p_pc = "start"
    /\ p_all_jobs \in SeqsUpTo(DispatchEntries, MaxJobs)
    /\ p_futures = <<>>
    /\ p_collected = {}
    /\ p_success_count = 0
    /\ p_errors_logged = 0
    /\ x_Idle
    /\ d_Idle
    /\ h_Idle

\* Lines 9-31: the list is cut at the threshold and every entry submitted.
SubmitJobs ==
    /\ p_pc = "start"
    /\ p_futures' = [i \in DOMAIN jobs_to_dispatch(p_all_jobs) |-> "pending"]
    /\ p_success_count' = 0
    /\ p_pc' = "collecting"
    /\ UNCHANGED <<p_all_jobs, p_collected, p_errors_logged>>
    /\ UNCHANGED <<x_vars, d_vars, h_vars>>

\* The next entry in the queue is the first pending one, if a thread is free.
next_pending(futures) ==
    {i \in DOMAIN futures :
        /\ futures[i] = "pending"
        /\ \A j \in 1..(i - 1) : futures[j] # "pending"
        /\ Cardinality({j \in DOMAIN futures : futures[j] = "running"}) < pool_threads}

\* Lines 115-133 of github_api_calls.py: a thread takes the next entry,
\* creates the run directory and opens the log file.
WorkerStarts ==
    /\ p_pc \in {"collecting", "raised"}
    /\ \E i \in next_pending(p_futures) :
        p_futures' = [p_futures EXCEPT ![i] = "running"]
    /\ UNCHANGED <<p_pc, p_all_jobs, p_collected, p_success_count, p_errors_logged>>
    /\ UNCHANGED <<x_vars, d_vars, h_vars>>

\* Lines 115-116 of github_api_calls.py: creating the run directory raises,
\* outside the try; the exception is stored in the future.
WorkerRaises ==
    /\ p_pc \in {"collecting", "raised"}
    /\ \E i \in next_pending(p_futures) :
        p_futures' = [p_futures EXCEPT ![i] = "raise"]
    /\ UNCHANGED <<p_pc, p_all_jobs, p_collected, p_success_count, p_errors_logged>>
    /\ UNCHANGED <<x_vars, d_vars, h_vars>>

\* Lines 133-137 of github_api_calls.py: the download ends well; the path is
\* returned.
WorkerReturnsPath ==
    /\ p_pc \in {"collecting", "raised"}
    /\ \E i \in DOMAIN p_futures :
        /\ p_futures[i] = "running"
        /\ p_futures' = [p_futures EXCEPT ![i] = "path"]
    /\ UNCHANGED <<p_pc, p_all_jobs, p_collected, p_success_count, p_errors_logged>>
    /\ UNCHANGED <<x_vars, d_vars, h_vars>>

\* Lines 138-143 of github_api_calls.py: the download fails; the error is
\* logged and None returned.
WorkerReturnsNone ==
    /\ p_pc \in {"collecting", "raised"}
    /\ \E i \in DOMAIN p_futures :
        /\ p_futures[i] = "running"
        /\ p_futures' = [p_futures EXCEPT ![i] = "none"]
    /\ UNCHANGED <<p_pc, p_all_jobs, p_collected, p_success_count, p_errors_logged>>
    /\ UNCHANGED <<x_vars, d_vars, h_vars>>

\* Lines 34-40 of parallel_processing.py: as_completed yields a finished
\* future, and the main thread takes its result.
CollectResult ==
    /\ p_pc = "collecting"
    /\ \E i \in DOMAIN p_futures \ p_collected :
        /\ p_futures[i] \in Finished
        /\ LET r == collect_result(p_futures[i], p_success_count)
           IN  /\ p_success_count' = r.success_count
               /\ p_errors_logged' = p_errors_logged + r.errors
               /\ p_pc' = IF r.raised THEN "raised" ELSE "collecting"
        /\ p_collected' = p_collected \cup {i}
    /\ UNCHANGED <<p_all_jobs, p_futures>>
    /\ UNCHANGED <<x_vars, d_vars, h_vars>>

\* Lines 29, 41-43 of parallel_processing.py: every future has been taken;
\* the executor is shut down and the totals logged.
DispatchDone ==
    /\ p_pc = "collecting"
    /\ p_collected = DOMAIN p_futures
    /\ p_pc' = "done"
    /\ UNCHANGED <<p_all_jobs, p_futures, p_collected, p_success_count, p_errors_logged>>
    /\ UNCHANGED <<x_vars, d_vars, h_vars>>

NextDispatch ==
    \/ SubmitJobs
    \/ WorkerStarts
    \/ WorkerRaises
    \/ WorkerReturnsPath
    \/ WorkerReturnsNone
    \/ CollectResult
    \/ DispatchDone

SpecDispatch == InitDispatch /\ [][NextDispatch]_vars

\* C6: the dispatcher never raises for a failing job; a finished job's result
\* is never changed and no step touches two jobs (no failure cancels or fails
\* a sibling); at the end every dispatched job has been attempted and
\* success_count is the number of jobs whose fetch returned a path.
C6_FailuresIsolated ==
    /\ [](p_pc # "raised")
    /\ [][\A i \in DOMAIN p_futures :
            /\ p_futures[i] \in Finished => p_futures'[i] = p_futures[i]
            /\ p_futures'[i] # p_futures[i] =>
                 \A j \in DOMAIN p_futures \ {i} : p_futures'[j] = p_futures[j]]_vars
    /\ [](p_pc = "done" =>
            /\ DOMAIN p_futures = DOMAIN p_all_jobs
            /\ \A i \in DOMAIN p_futures : p_futures[i] \in Finished
            /\ p_success_count =
                 Cardinality({i \in DOMAIN p_futures : p_futures[i] = "path"})
            /\ p_errors_logged =
                 Cardinality({i \in DOMAIN p_futures : p_futures[i] = "raise"}))

\* The dispatcher ended with a job that raised, one that failed and one that
\* was downloaded.
C6_Witness ==
    /\ p_pc = "done"
    /\ \E i, j, k \in DOMAIN p_futures :
        /\ p_futures[i] = "raise"
        /\ p_futures[j] = "none"
        /\ p_futures[k] = "path"
    /\ p_success_count = 1

\* C13: no two workers that are writing at the same time write to the same
\* file path: the entries whose downloads are in progress have pairwise
\* different paths run-<run id>/<job id>-<job name>.log.
C13_WorkersWriteDistinctPaths ==
    \A i, j \in DOMAIN p_futures :
        (i # j /\ p_futures[i] = "running" /\ p_futures[j] = "running") =>
            output_path(jobs_to_dispatch(p_all_jobs)[i])
                # output_path(jobs_to_dispatch(p_all_jobs)[j])

InitExtract ==
    /\ x_pc = "ready"
    /\ \E in \in ExtractInputs : x_path = in[1] /\ x_content = in[2]
    /\ x_isfile \in BOOLEAN
    /\ x_result = NoResult
    /\ d_Idle
    /\ h_Idle
    /\ p_Idle

\* One call of process_log_file.
ProcessLogFile ==
    /\ x_pc = "ready"
    /\ x_result' = process_log_file(x_path, x_isfile, x_content)
    /\ x_pc' = "done"
    /\ UNCHANGED <<x_path, x_isfile, x_content>>
    /\ UNCHANGED <<d_vars, h_vars, p_vars>>

NextExtract == ProcessLogFile

SpecExtract == InitExtract /\ [][NextExtract]_vars

x_returned == x_pc = "done" /\ x_result # NoResult

\* The occurrences of a line kind in a text, counted line by line.
RECURSIVE Occurrences(_, _)
Occurrences(kind, text) ==
    IF text = <<>> THEN 0
    ELSE (IF Head(text) = kind THEN 1 ELSE 0) + Occurrences(kind, Tail(text))

\* C8: the failure_rate of every record the extractor returns lies in
\* [0.00, 100.00] (0..10000 hundredths), whatever the marker counts are.
C8_FailureRateInRange ==
    x_returned => x_result.failure_rate \in 0..10000

\* C9: for a text with the retry marker, failures is the sum of the three
\* component counts capped at 3 (so it is in 0..3), each component count is the
\* number of its markers in the text, and total_runs is logged_attempt_total +
\* logged_attempt_count; two "Attempt N failed", one "Final attempt failed" and
\* no test-failure line give 2, 1, 0 and failures = 3.
C9_FailuresCappedSum ==
    (x_returned /\ Occurrences("marker", x_content) > 0) =>
        LET r == x_result
            a == Occurrences("attempt_failed", x_content)
            f == Occurrences("final_failed", x_content)
            t == Occurrences("tests_failed", x_content)
        IN  /\ r.attempt_failure_count = a
            /\ r.final_attempt_failure_count = f
            /\ r.test_failure_count = t
            /\ r.failures = (IF a + f + t > 3 THEN 3 ELSE a + f + t)
            /\ r.failures \in {0, 1, 2, 3}
            /\ r.logged_attempt_total = Occurrences("completed", x_content)
            /\ r.logged_attempt_count = Occurrences("attempt", x_content)
            /\ r.total_runs = r.logged_attempt_total + r.logged_attempt_count
            /\ (a = 2 /\ f = 1 /\ t = 0) => r.failures = 3

\* The scenario of C9 has been extracted, and so has a text whose sum is over 3.
C9_Witness ==
    /\ x_returned
    /\ Occurrences("marker", x_content) > 0
    /\ Occurrences("attempt_failed", x_content) = 2
    /\ Occurrences("final_failed", x_content) = 1
    /\ Occurrences("tests_failed", x_content) = 0
    /\ x_result.failures = 3

\* C10: every record's job_name is the base file name without its leading
\* "<digits>-" prefix, with or without the retry marker in the text.
C10_JobNameStripped ==
    x_returned => x_result.job_name = strip_numeric_prefix(basename(x_path))

=============================================================================
